---------------------------- MODULE Spec2Model ----------------------------
(***************************************************************************)
(* Model of mapping/find_intersecting_snps_2.py (WASP): the variant index  *)
(* (get_snps, get_indels), the candidate sequence generators               *)
(* (get_read_seqs, get_dual_read_seqs), and the triage loop (assign_reads, *)
(* write_read_seqs).                                                       *)
(*                                                                         *)
(* Conventions.  A Python str is a tuple of one-character strings, so that *)
(* it can be indexed and sliced; Python offsets are 0-based, hence the     *)
(* "+ 1" wherever a tuple is indexed.  An optional offset (None or an int) *)
(* is the empty tuple or a one-element tuple.  A dict is a function whose  *)
(* DOMAIN is its key set.                                                  *)
(***************************************************************************)
EXTENDS Integers, Sequences, FiniteSets, TLC

VARIABLES
    pc,              \* position of the program
    snp_lines,       \* the variant source: lines <<chrom, pos, ref, alt>>
    line_no,         \* number of variant lines consumed by get_snps
    snp_dict,        \* chrom -> (0-based position -> allele string)
    indel_dict,      \* chrom -> set of positions flagged True
    is_paired,       \* options.is_paired_end
    insam,           \* the input alignment record stream
    i,               \* number of records of insam consumed
    unpaired_reads,  \* <<mate-1 buffer, mate-2 buffer>>, each qname -> record
    read_results,    \* the disposition Counter
    remap_num,       \* remap-batch counter of assign_reads
    keep,            \* records written to keep.bam
    remap_bam,       \* records written to to.remap.bam
    dropped_bam,     \* records written to dropped.bam
    fastqs,          \* records written to each remap fastq, one list per mate
    both_reads,      \* the record(s) handed to the generator last
    both_seqs,       \* the candidate list(s) the generator returned last
    gen              \* locals of the generator call in progress

vars == <<pc, snp_lines, line_no, snp_dict, indel_dict, is_paired, insam, i,
          unpaired_reads, read_results, remap_num, keep, remap_bam,
          dropped_bam, fastqs, both_reads, both_seqs, gen>>

MAX_SEQS_PER_READ == 1024

---------------------------------------------------------------------------
(* Bounds of the model                                                     *)

\* longest input stream of assign_reads
MaxReads == 4
\* length of the reads of the generated read family
GenLen == 3
\* longest variant source handed to get_snps
MaxLines == 3

---------------------------------------------------------------------------
(* Small helpers                                                           *)

Min(a, b) == IF a < b THEN a ELSE b

Last(s) == s[Len(s)]

\* "x in s" for a Python str or list s
In(x, s) == \E k \in DOMAIN s : s[k] = x

\* product(iterable): reduce(mul, iterable, 1), over a tuple of integers
RECURSIVE product(_)
product(ns) ==
    IF ns = <<>> THEN 1 ELSE ns[1] * product(Tail(ns))

\* seq[:pos] + allele + seq[pos+1:]
Subst(seq, pos, allele) ==
    SubSeq(seq, 1, pos) \o <<allele>> \o SubSeq(seq, pos + 2, Len(seq))

\* Counter[key] += 1
Inc(counter, key) == [counter EXCEPT ![key] = @ + 1]

DispositionKeys ==
    {"toss_indel", "toss_manysnps", "toss_anomalous_phase", "no_snps",
     "has_snps", "ref_match", "no_match", "not_proper_pair"}

\* Counter(): every key reads as 0
EmptyCounter == [key \in DispositionKeys |-> 0]

---------------------------------------------------------------------------
(* Variant index: get_snps, get_indels                                     *)

\* snp_dict[chrom][pos] = "".join([ref, alt]) with pos = int(pos) - 1
SnpInsert(dict, line) ==
    LET chrom == line[1]
        pos == line[2] - 1
        alleles == line[3] \o line[4]
        old == IF chrom \in DOMAIN dict THEN dict[chrom] ELSE <<>>
        new == [p \in (DOMAIN old) \cup {pos} |->
                    IF p = pos THEN alleles ELSE old[p]]
    IN  [c \in (DOMAIN dict) \cup {chrom} |->
            IF c = chrom THEN new ELSE dict[c]]

\* get_snps on a consolidated file: every line in turn
RECURSIVE get_snps_from(_, _, _)
get_snps_from(dict, lines, n) ==
    IF n > Len(lines) THEN dict
    ELSE get_snps_from(SnpInsert(dict, lines[n]), lines, n + 1)

get_snps(lines) == get_snps_from(<<>>, lines, 1)

\* max(len(i) for i in alleles): iterating a str yields its characters,
\* each a str of length 1
MaxAlleleLen(alleles) ==
    LET lens == {Len(<<alleles[k]>>) : k \in DOMAIN alleles}
    IN  CHOOSE m \in lens : \A n \in lens : n <= m

\* the test of get_indels
IsIndelEntry(alleles) ==
    In("-", alleles) \/ MaxAlleleLen(alleles) > 1

get_indels(dict) ==
    [chrom \in DOMAIN dict |->
        {pos \in DOMAIN dict[chrom] : IsIndelEntry(dict[chrom][pos])}]

\* indel_dict[chrom][ref_pos]: a defaultdict, False where nothing was set
IndelAt(chrom, ref_pos) ==
    chrom \in DOMAIN indel_dict /\ ref_pos \in indel_dict[chrom]

\* ref_pos in snp_dict[chrom]: a defaultdict(dict)
HasSnp(chrom, ref_pos) ==
    chrom \in DOMAIN snp_dict /\ ref_pos \in DOMAIN snp_dict[chrom]

---------------------------------------------------------------------------
(* reverse_complement                                                      *)

\* str.translate(RC_TABLE): a symbol the table does not map is kept
RC_TABLE(c) ==
    CASE c = "A" -> "T"
      [] c = "T" -> "A"
      [] c = "C" -> "G"
      [] c = "G" -> "C"
      [] OTHER -> c

reverse_complement(seq) ==
    [k \in 1..Len(seq) |-> RC_TABLE(seq[Len(seq) + 1 - k])]

---------------------------------------------------------------------------
(* get_read_seqs: the single-ended generator                               *)

\* for new_allele in alleles: ... for seq in list(seqs): seqs.append(...)
\* The copy list(seqs) is taken anew for every allele, so it holds what the
\* earlier alleles of the same position appended.
RECURSIVE ExpandSingle(_, _, _, _, _)
ExpandSingle(seqs, alleles, j, read_base, read_pos) ==
    IF j > Len(alleles) THEN seqs
    ELSE IF alleles[j] = read_base
         THEN ExpandSingle(seqs, alleles, j + 1, read_base, read_pos)
         ELSE ExpandSingle(
                  seqs \o [n \in 1..Len(seqs) |->
                              Subst(seqs[n], read_pos, alleles[j])],
                  alleles, j + 1, read_base, read_pos)

\* locals of get_read_seqs on entry; k is the next aligned pair
SingleEntry(read, dispositions) ==
    [kind |-> "single", num_snps |-> 0, seqs |-> <<read.seq>>, k |-> 1,
     disp |-> dispositions, done |-> FALSE, ret |-> <<>>]

\* one iteration of the loop over read.get_aligned_pairs(matches_only=True)
SingleBody(read, st) ==
    LET chrom == read.reference_name
        read_pos == read.aligned_pairs[st.k][1]
        ref_pos == read.aligned_pairs[st.k][2]
    IN  IF IndelAt(chrom, ref_pos)
        THEN [st EXCEPT !.disp = Inc(@, "toss_indel"),
                        !.done = TRUE, !.ret = <<>>]
        ELSE IF Len(st.seqs) > MAX_SEQS_PER_READ
        THEN [st EXCEPT !.disp = Inc(@, "toss_manysnps"),
                        !.done = TRUE, !.ret = <<>>]
        ELSE IF HasSnp(chrom, ref_pos)
        THEN LET read_base == read.seq[read_pos + 1]
                 alleles == snp_dict[chrom][ref_pos]
             IN  IF In(read_base, alleles)
                 THEN [st EXCEPT
                          !.disp = Inc(@, "ref_match"),
                          !.num_snps = @ + 1,
                          !.seqs = ExpandSingle(@, alleles, 1, read_base,
                                                read_pos),
                          !.k = @ + 1]
                 ELSE [st EXCEPT !.disp = Inc(@, "no_match"), !.k = @ + 1]
        ELSE [st EXCEPT !.k = @ + 1]

\* after the loop: no_snps / has_snps, return seqs
SingleExit(st) ==
    [st EXCEPT !.disp = Inc(@, IF Len(st.seqs) = 1 THEN "no_snps"
                                ELSE "has_snps"),
               !.done = TRUE, !.ret = st.seqs]

RECURSIVE SingleRun(_, _)
SingleRun(read, st) ==
    IF st.done THEN st
    ELSE IF st.k > Len(read.aligned_pairs) THEN SingleExit(st)
    ELSE SingleRun(read, SingleBody(read, st))

\* the whole call: .ret is the returned list, .disp the Counter afterwards
get_read_seqs(read, dispositions) ==
    SingleRun(read, SingleEntry(read, dispositions))

---------------------------------------------------------------------------
(* get_dual_read_seqs: the paired-end generator                            *)

\* the first loop of a mate: does an aligned pair hit an indel flag
HitsIndel(read, chrom) ==
    \E k \in DOMAIN read.aligned_pairs :
        IndelAt(chrom, read.aligned_pairs[k][2])

\* the reference positions of a mate that are keys of snp_dict[chrom],
\* in the order of its aligned pairs
RECURSIVE SnpPositions(_, _, _)
SnpPositions(read, chrom, k) ==
    IF k > Len(read.aligned_pairs) THEN <<>>
    ELSE LET ref_pos == read.aligned_pairs[k][2]
         IN  (IF HasSnp(chrom, ref_pos) THEN <<ref_pos>> ELSE <<>>)
             \o SnpPositions(read, chrom, k + 1)

\* read_posns[ref_pos][slot]: the mate's offset at ref_pos, or None
ReadPosn(read, chrom, ref_pos) ==
    LET ks == {k \in DOMAIN read.aligned_pairs :
                   read.aligned_pairs[k][2] = ref_pos}
    IN  IF ks = {} \/ ~HasSnp(chrom, ref_pos) THEN <<>>
        ELSE <<read.aligned_pairs[CHOOSE k \in ks : \A m \in ks : m <= k][1]>>

\* the keys of the dict snps in insertion order: mate 1's, then mate 2's
\* that mate 1 did not insert
SnpKeys(read1, read2, chrom) ==
    LET keys1 == SnpPositions(read1, chrom, 1)
        keys2 == SnpPositions(read2, chrom, 1)
    IN  keys1 \o SelectSeq(keys2, LAMBDA p : ~In(p, keys1))

\* product(len(i) for i in snps.values())
CapEstimate(keys, chrom) ==
    product([n \in 1..Len(keys) |-> Len(snp_dict[chrom][keys[n]])])

\* PhaseDiffers with a fault: mate 2 is read at mate 1's offset
PhaseDiffers_WrongOffset(seq1, pos1, seq2, pos2) ==
    seq1[pos1 + 1] # seq2[pos1 + 1]

\* seq1[pos1] != seq2[pos2], on whatever seq1 and seq2 are bound to
PhaseDiffers(seq1, pos1, seq2, pos2) ==
    seq1[pos1 + 1] # seq2[pos2 + 1]

\* locals of get_dual_read_seqs on entry
DualEntry(read1, read2, dispositions) ==
    [kind |-> "dual", seq1 |-> read1.seq, seq2 |-> read2.seq,
     seqs1 |-> <<read1.seq>>, seqs2 |-> <<read2.seq>>,
     keys |-> <<>>, k |-> 1,
     disp |-> dispositions, done |-> FALSE, ret |-> <<>>]

\* the two scanning loops and the cap test; "for ref_pos in snps" will
\* visit the keys in insertion order
DualScan(read1, read2, st) ==
    LET chrom == read1.reference_name
    IN  IF HitsIndel(read1, chrom) \/ HitsIndel(read2, chrom)
        THEN [st EXCEPT !.disp = Inc(@, "toss_indel"),
                        !.done = TRUE, !.ret = << <<>>, <<>> >>]
        ELSE IF CapEstimate(SnpKeys(read1, read2, chrom), chrom)
                    > MAX_SEQS_PER_READ
        THEN [st EXCEPT !.disp = Inc(@, "toss_manysnps"),
                        !.done = TRUE, !.ret = << <<>>, <<>> >>]
        ELSE [st EXCEPT !.keys = SnpKeys(read1, read2, chrom)]

\* "for allele in alleles" of one position.  acc holds new_seqs1, new_seqs2
\* and the names seq1, seq2, which the inner "for seq1, seq2 in zip(...)"
\* rebinds: after it they name the last entries of seqs1 and seqs2.
RECURSIVE DualAlleles(_, _, _, _, _, _, _)
DualAlleles(acc, seqs1, seqs2, alleles, j, pos1, pos2) ==
    IF j > Len(alleles) THEN acc
    ELSE LET observed == IF pos1 = <<>> \/ pos2 # <<>>
                         THEN acc.seq2[pos2[1] + 1]
                         ELSE acc.seq1[pos1[1] + 1]
             n == Min(Len(seqs1), Len(seqs2))
         IN  IF alleles[j] = observed
             THEN DualAlleles(acc, seqs1, seqs2, alleles, j + 1, pos1, pos2)
             ELSE DualAlleles(
                 [new_seqs1 |-> acc.new_seqs1 \o
                      [m \in 1..n |->
                          IF pos1 = <<>> THEN seqs1[m]
                          ELSE Subst(seqs1[m], pos1[1], alleles[j])],
                  new_seqs2 |-> acc.new_seqs2 \o
                      [m \in 1..n |->
                          IF pos2 = <<>> THEN seqs2[m]
                          ELSE Subst(seqs2[m], pos2[1], alleles[j])],
                  seq1 |-> IF n > 0 THEN seqs1[n] ELSE acc.seq1,
                  seq2 |-> IF n > 0 THEN seqs2[n] ELSE acc.seq2],
                 seqs1, seqs2, alleles, j + 1, pos1, pos2)

\* one iteration of "for ref_pos in snps"
DualBody(read1, read2, st) ==
    LET chrom == read1.reference_name
        ref_pos == st.keys[st.k]
        alleles == snp_dict[chrom][ref_pos]
        pos1 == ReadPosn(read1, chrom, ref_pos)
        pos2 == ReadPosn(read2, chrom, ref_pos)
        acc == DualAlleles([new_seqs1 |-> <<>>, new_seqs2 |-> <<>>,
                            seq1 |-> st.seq1, seq2 |-> st.seq2],
                           st.seqs1, st.seqs2, alleles, 1, pos1, pos2)
    IN  IF pos1 # <<>> /\ pos2 # <<>>
           /\ PhaseDiffers(st.seq1, pos1[1], st.seq2, pos2[1])
        THEN [st EXCEPT !.disp = Inc(@, "toss_anomalous_phase"),
                        !.done = TRUE, !.ret = << <<>>, <<>> >>]
        ELSE [st EXCEPT !.seqs1 = @ \o acc.new_seqs1,
                        !.seqs2 = @ \o acc.new_seqs2,
                        !.seq1 = acc.seq1, !.seq2 = acc.seq2,
                        !.k = @ + 1]

\* after the loop: no_snps / has_snps, return seqs1, seqs2
DualExit(st) ==
    [st EXCEPT !.disp = Inc(@, IF Len(st.seqs1) = 1 THEN "no_snps"
                                ELSE "has_snps"),
               !.done = TRUE, !.ret = <<st.seqs1, st.seqs2>>]

RECURSIVE DualRun(_, _, _)
DualRun(read1, read2, st) ==
    IF st.done THEN st
    ELSE IF st.k > Len(st.keys) THEN DualExit(st)
    ELSE DualRun(read1, read2, DualBody(read1, read2, st))

\* the whole call: .ret is the returned pair of lists, .disp the Counter
\* afterwards
get_dual_read_seqs(read1, read2, dispositions) ==
    DualRun(read1, read2,
            DualScan(read1, read2, DualEntry(read1, read2, dispositions)))

---------------------------------------------------------------------------
(* write_read_seqs                                                         *)

\* it.product(*seqs): the Cartesian product of the lists, the last list
\* varying fastest
RECURSIVE ItProduct(_)
ItProduct(lists) ==
    IF lists = <<>> THEN << <<>> >>
    ELSE LET rest == ItProduct(Tail(lists))
             r == Len(rest)
         IN  [n \in 1..(Len(lists[1]) * r) |->
                 <<lists[1][((n - 1) \div r) + 1]>> \o rest[((n - 1) % r) + 1]]

\* min(r.pos for r in reads), max(r.pos for r in reads)
MinPos(reads) ==
    CHOOSE p \in {reads[m].pos : m \in DOMAIN reads} :
        \A m \in DOMAIN reads : p <= reads[m].pos

MaxPos(reads) ==
    CHOOSE p \in {reads[m].pos : m \in DOMAIN reads} :
        \A m \in DOMAIN reads : p >= reads[m].pos

\* the fields of loc_line; "read" is the name the loop "for read in reads"
\* left bound to the last record
LocLine(reads, remap_num_arg, num_seqs) ==
    <<remap_num_arg, Last(reads).reference_name, MinPos(reads),
      MaxPos(reads), num_seqs - 1>>

\* one 4-line fastq record
FastqRecord(loc_line, seq, read) ==
    [loc_line |-> loc_line,
     seq |-> IF read.is_reverse THEN reverse_complement(seq) ELSE seq,
     qual |-> read.qual]

\* The call.  sinks holds keep, remap_bam and fastqs; dropped is <<>> for
\* None and <<list>> for a sink.  The result holds the sinks afterwards and
\* the returned number.
write_read_seqs(reads, seqs, sinks, dropped, remap_num_arg) ==
    LET num_seqs == product([m \in DOMAIN seqs |-> Len(seqs[m])])
        combos == ItProduct(seqs)
        loc_line == LocLine(reads, remap_num_arg, num_seqs)
        out == [keep |-> sinks.keep, remap_bam |-> sinks.remap_bam,
                fastqs |-> sinks.fastqs, dropped |-> dropped, ret |-> 0]
    IN  IF num_seqs = 0 \/ num_seqs > MAX_SEQS_PER_READ
        THEN IF dropped # <<>>
             THEN [out EXCEPT !.dropped = <<dropped[1] \o reads>>]
             ELSE out
        ELSE IF num_seqs = 1
        THEN [out EXCEPT !.keep = @ \o reads]
        ELSE [out EXCEPT
                 !.remap_bam = @ \o reads,
                 !.fastqs =
                     [m \in DOMAIN sinks.fastqs |->
                         IF m > Min(Len(reads), Len(seqs))
                         THEN sinks.fastqs[m]
                         ELSE sinks.fastqs[m] \o
                              [c \in 1..(Len(combos) - 1) |->
                                  FastqRecord(loc_line, combos[c + 1][m],
                                              reads[m])]],
                 !.ret = 1]

---------------------------------------------------------------------------
(* assign_reads: one iteration of "for i, read in enumerate(insam)"        *)

\* a bool used as a list index: False is slot 0, True is slot 1
Slot(flag) == IF flag THEN 2 ELSE 1

slot_self(read) == Slot(read.is_read2)

\* slot_other with a fault: the record's own slot
slot_other_OwnSlot(read) == Slot(read.is_read2)

slot_other(read) == Slot(read.is_read1)

\* dict[key] = value
DictPut(dict, key, value) ==
    [q \in (DOMAIN dict) \cup {key} |-> IF q = key THEN value ELSE dict[q]]

\* dict.pop(key): the dict afterwards
DictDel(dict, key) ==
    [q \in (DOMAIN dict) \ {key} |-> dict[q]]

Sinks == [keep |-> keep, remap_bam |-> remap_bam, fastqs |-> fastqs]

\* if not is_paired: get_read_seqs, then write_read_seqs without a dropped
\* sink and without remap_num; what it returns is not used
SingleEnded ==
    /\ pc = "reads" /\ i < Len(insam) /\ ~is_paired
    /\ LET read == insam[i + 1]
           g == get_read_seqs(read, read_results)
           w == write_read_seqs(<<read>>, <<g.ret>>, Sinks, <<>>, 0)
       IN  /\ read_results' = g.disp
           /\ both_reads' = <<read>>
           /\ both_seqs' = <<g.ret>>
           /\ keep' = w.keep
           /\ remap_bam' = w.remap_bam
           /\ fastqs' = w.fastqs
    /\ i' = i + 1
    /\ UNCHANGED <<pc, snp_lines, line_no, snp_dict, indel_dict, is_paired,
                   insam, unpaired_reads, remap_num, dropped_bam, gen>>

\* elif read.is_proper_pair, the partner is buffered: triage the two
PairMates ==
    /\ pc = "reads" /\ i < Len(insam) /\ is_paired
    /\ LET read == insam[i + 1]
           self == slot_self(read)
           other == slot_other(read)
       IN  /\ read.is_proper_pair
           /\ read.qname \in DOMAIN unpaired_reads[other]
           /\ LET reads == [s \in 1..2 |->
                              IF s = other
                              THEN unpaired_reads[other][read.qname]
                              ELSE read]
                  g == get_dual_read_seqs(reads[1], reads[2], read_results)
                  w == write_read_seqs(reads, g.ret, Sinks, <<dropped_bam>>,
                                       remap_num)
              IN  /\ read_results' = g.disp
                  /\ both_reads' = reads
                  /\ both_seqs' = g.ret
                  /\ keep' = w.keep
                  /\ remap_bam' = w.remap_bam
                  /\ fastqs' = w.fastqs
                  /\ dropped_bam' = w.dropped[1]
                  /\ remap_num' = remap_num + w.ret
           /\ unpaired_reads' =
                  [unpaired_reads EXCEPT ![other] = DictDel(@, read.qname)]
    /\ i' = i + 1
    /\ UNCHANGED <<pc, snp_lines, line_no, snp_dict, indel_dict, is_paired,
                   insam, gen>>

\* elif read.is_proper_pair, no partner buffered: buffer the record
BufferMate ==
    /\ pc = "reads" /\ i < Len(insam) /\ is_paired
    /\ LET read == insam[i + 1]
       IN  /\ read.is_proper_pair
           /\ read.qname \notin DOMAIN unpaired_reads[slot_other(read)]
           /\ unpaired_reads' =
                  [unpaired_reads EXCEPT
                      ![slot_self(read)] = DictPut(@, read.qname, read)]
    /\ i' = i + 1
    /\ UNCHANGED <<pc, snp_lines, line_no, snp_dict, indel_dict, is_paired,
                   insam, read_results, remap_num, keep, remap_bam,
                   dropped_bam, fastqs, both_reads, both_seqs, gen>>

\* else: count not_proper_pair and continue
NotProperPair ==
    /\ pc = "reads" /\ i < Len(insam) /\ is_paired
    /\ ~insam[i + 1].is_proper_pair
    /\ read_results' = Inc(read_results, "not_proper_pair")
    /\ i' = i + 1
    /\ UNCHANGED <<pc, snp_lines, line_no, snp_dict, indel_dict, is_paired,
                   insam, unpaired_reads, remap_num, keep, remap_bam,
                   dropped_bam, fastqs, both_reads, both_seqs, gen>>

\* the stream is exhausted: the closing prints
EndOfStream ==
    /\ pc = "reads" /\ i = Len(insam)
    /\ pc' = "done"
    /\ UNCHANGED <<snp_lines, line_no, snp_dict, indel_dict, is_paired,
                   insam, i, unpaired_reads, read_results, remap_num, keep,
                   remap_bam, dropped_bam, fastqs, both_reads, both_seqs,
                   gen>>

---------------------------------------------------------------------------
(* The generators, one loop iteration at a time                            *)

GenSingleBody ==
    /\ pc = "single_loop" /\ ~gen.done
    /\ gen.k <= Len(both_reads[1].aligned_pairs)
    /\ gen' = SingleBody(both_reads[1], gen)
    /\ UNCHANGED <<pc, snp_lines, line_no, snp_dict, indel_dict, is_paired,
                   insam, i, unpaired_reads, read_results, remap_num, keep,
                   remap_bam, dropped_bam, fastqs, both_reads, both_seqs>>

GenSingleExit ==
    /\ pc = "single_loop" /\ ~gen.done
    /\ gen.k > Len(both_reads[1].aligned_pairs)
    /\ gen' = SingleExit(gen)
    /\ UNCHANGED <<pc, snp_lines, line_no, snp_dict, indel_dict, is_paired,
                   insam, i, unpaired_reads, read_results, remap_num, keep,
                   remap_bam, dropped_bam, fastqs, both_reads, both_seqs>>

GenDualScan ==
    /\ pc = "dual_scan"
    /\ gen' = DualScan(both_reads[1], both_reads[2], gen)
    /\ pc' = "dual_loop"
    /\ UNCHANGED <<snp_lines, line_no, snp_dict, indel_dict, is_paired,
                   insam, i, unpaired_reads, read_results, remap_num, keep,
                   remap_bam, dropped_bam, fastqs, both_reads, both_seqs>>

GenDualBody ==
    /\ pc = "dual_loop" /\ ~gen.done
    /\ gen.k <= Len(gen.keys)
    /\ gen' = DualBody(both_reads[1], both_reads[2], gen)
    /\ UNCHANGED <<pc, snp_lines, line_no, snp_dict, indel_dict, is_paired,
                   insam, i, unpaired_reads, read_results, remap_num, keep,
                   remap_bam, dropped_bam, fastqs, both_reads, both_seqs>>

GenDualExit ==
    /\ pc = "dual_loop" /\ ~gen.done
    /\ gen.k > Len(gen.keys)
    /\ gen' = DualExit(gen)
    /\ UNCHANGED <<pc, snp_lines, line_no, snp_dict, indel_dict, is_paired,
                   insam, i, unpaired_reads, read_results, remap_num, keep,
                   remap_bam, dropped_bam, fastqs, both_reads, both_seqs>>

\* the generator returns to assign_reads
GenReturn ==
    /\ pc \in {"single_loop", "dual_loop"} /\ gen.done
    /\ both_seqs' = IF gen.kind = "single" THEN <<gen.ret>> ELSE gen.ret
    /\ read_results' = gen.disp
    /\ pc' = "returned"
    /\ UNCHANGED <<snp_lines, line_no, snp_dict, indel_dict, is_paired,
                   insam, i, unpaired_reads, remap_num, keep, remap_bam,
                   dropped_bam, fastqs, both_reads, gen>>

---------------------------------------------------------------------------
(* Building the variant index, one line at a time                          *)

ReadSnpLine ==
    /\ pc = "get_snps" /\ line_no < Len(snp_lines)
    /\ snp_dict' = SnpInsert(snp_dict, snp_lines[line_no + 1])
    /\ line_no' = line_no + 1
    /\ UNCHANGED <<pc, snp_lines, indel_dict, is_paired, insam, i,
                   unpaired_reads, read_results, remap_num, keep, remap_bam,
                   dropped_bam, fastqs, both_reads, both_seqs, gen>>

BuildIndels ==
    /\ pc = "get_snps" /\ line_no = Len(snp_lines)
    /\ indel_dict' = get_indels(snp_dict)
    /\ pc' = "indexed"
    /\ UNCHANGED <<snp_lines, line_no, snp_dict, is_paired, insam, i,
                   unpaired_reads, read_results, remap_num, keep, remap_bam,
                   dropped_bam, fastqs, both_reads, both_seqs, gen>>

---------------------------------------------------------------------------
(* Inputs                                                                  *)

\* n copies of the symbol c
Repeat(c, n) == [k \in 1..n |-> c]

\* The variant source of the triage and generator runs, as a consolidated
\* file (chrom, 1-based position, ref, alt): eleven adjacent two-allele
\* SNPs at 0..10, then SNPs at 20 and 21, a three-allele entry at 22, a
\* deletion at 25 and an insertion at 26 (0-based).
SnpFile ==
    [n \in 1..11 |-> <<"chr1", n, <<"A">>, <<"G">> >>] \o
    << <<"chr1", 21, <<"A">>, <<"G">> >>,
       <<"chr1", 22, <<"C">>, <<"T">> >>,
       <<"chr1", 23, <<"A">>, <<"C", "G">> >>,
       <<"chr1", 26, <<"A">>, <<"-">> >>,
       <<"chr1", 27, <<"A">>, <<"A", "T">> >> >>

\* an alignment record whose first clip bases are soft-clipped and whose
\* other bases match the reference from pos on:
\* get_aligned_pairs(matches_only=True) pairs offset clip + k with pos + k
MkRead(qname, mate, seq, pos, clip, is_reverse, is_proper_pair) ==
    [qname |-> qname, seq |-> seq, qual |-> Repeat("I", Len(seq)),
     reference_name |-> "chr1", pos |-> pos, is_reverse |-> is_reverse,
     is_read1 |-> (mate = 1), is_read2 |-> (mate = 2),
     is_proper_pair |-> is_proper_pair,
     aligned_pairs |-> [k \in 1..(Len(seq) - clip) |->
                           <<clip + k - 1, pos + k - 1>>]]

\* the records a stream of the triage runs is made of
ReadSet ==
    { MkRead("a", 1, <<"G", "A">>, 19, 0, FALSE, TRUE),
      MkRead("a", 2, <<"G", "A">>, 19, 0, TRUE, TRUE),
      MkRead("b", 1, <<"T", "A">>, 24, 0, FALSE, TRUE),
      MkRead("b", 2, <<"G", "G">>, 30, 0, TRUE, TRUE),
      MkRead("c", 1, <<"G", "G">>, 30, 0, FALSE, TRUE),
      MkRead("c", 2, <<"G", "G">>, 31, 0, TRUE, TRUE),
      MkRead("d", 1, <<"G", "A">>, 19, 0, FALSE, FALSE) }

Streams == UNION {[1..n -> ReadSet] : n \in 0..MaxReads}

\* the reads of the generator runs: every read of GenLen bases over three
\* symbols starting at 20..24, a mate 2 with or without a soft-clipped first
\* base, and reads across the eleven adjacent SNPs
GenBases == {"A", "C", "T"}

LightReads(mate) ==
    { MkRead("q", mate, seq, pos, clip, FALSE, TRUE) :
          seq \in [1..GenLen -> GenBases], pos \in 20..24,
          clip \in (IF mate = 2 THEN {0, 1} ELSE {0}) }

HeavyReads ==
    { MkRead("h", 1, Repeat("A", 11), 0, 0, FALSE, TRUE),
      MkRead("h", 1, Repeat("A", 12), 0, 0, FALSE, TRUE),
      MkRead("h", 1, Repeat("T", 11), 0, 0, FALSE, TRUE) }

HeavyPairs ==
    { <<MkRead("h", 1, Repeat("T", 7), 0, 0, FALSE, TRUE),
        MkRead("h", 2, Repeat("T", 2), 9, 0, TRUE, TRUE)>>,
      <<MkRead("h", 1, Repeat("A", 11), 0, 0, FALSE, TRUE),
        MkRead("h", 2, Repeat("T", 2), 30, 0, TRUE, TRUE)>> }

GenSingles == {<<r>> : r \in LightReads(1) \cup HeavyReads}

GenPairs == (LightReads(1) \X LightReads(2)) \cup HeavyPairs

\* the lines a variant source of the index runs is made of
LineSet ==
    { <<chrom, pos, ra[1], ra[2]>> :
          chrom \in {"chr1", "chr2"}, pos \in 1..2,
          ra \in { << <<"A">>, <<"G">> >>, << <<"A">>, <<"-">> >>,
                   << <<"A">>, <<"A", "T">> >>, << <<"A", "T">>, <<"A">> >> } }

SnpSources == UNION {[1..n -> LineSet] : n \in 0..MaxLines}

---------------------------------------------------------------------------
(* Specifications                                                          *)

\* what all runs start from, the index apart
InitCommon ==
    /\ i = 0
    /\ unpaired_reads = << <<>>, <<>> >>
    /\ read_results = EmptyCounter
    /\ remap_num = 1
    /\ keep = <<>>
    /\ remap_bam = <<>>
    /\ dropped_bam = <<>>
    /\ fastqs = IF is_paired THEN << <<>>, <<>> >> ELSE << <<>> >>
    /\ both_seqs = <<>>

InitIndexed ==
    /\ snp_lines = SnpFile
    /\ line_no = Len(SnpFile)
    /\ snp_dict = get_snps(SnpFile)
    /\ indel_dict = get_indels(get_snps(SnpFile))

\* assign_reads on any stream, single-ended or paired-end
Init ==
    /\ pc = "reads"
    /\ InitIndexed
    /\ is_paired \in BOOLEAN
    /\ insam \in Streams
    /\ both_reads = <<>>
    /\ gen = <<>>
    /\ InitCommon

Next ==
    \/ SingleEnded
    \/ PairMates
    \/ BufferMate
    \/ NotProperPair
    \/ EndOfStream

Spec == Init /\ [][Next]_vars

\* one call of a generator on any read or pair of the generator inputs
InitGen ==
    /\ InitIndexed
    /\ insam = <<>>
    /\ \/ /\ is_paired = FALSE
          /\ pc = "single_loop"
          /\ both_reads \in GenSingles
          /\ gen = SingleEntry(both_reads[1], EmptyCounter)
       \/ /\ is_paired = TRUE
          /\ pc = "dual_scan"
          /\ both_reads \in GenPairs
          /\ gen = DualEntry(both_reads[1], both_reads[2], EmptyCounter)
    /\ InitCommon

NextGen ==
    \/ GenSingleBody
    \/ GenSingleExit
    \/ GenDualScan
    \/ GenDualBody
    \/ GenDualExit
    \/ GenReturn

SpecGen == InitGen /\ [][NextGen]_vars

\* get_snps and get_indels on any variant source
InitIndex ==
    /\ pc = "get_snps"
    /\ snp_lines \in SnpSources
    /\ line_no = 0
    /\ snp_dict = <<>>
    /\ indel_dict = <<>>
    /\ is_paired = FALSE
    /\ insam = <<>>
    /\ both_reads = <<>>
    /\ gen = <<>>
    /\ InitCommon

NextIndex ==
    \/ ReadSnpLine
    \/ BuildIndels

SpecIndex == InitIndex /\ [][NextIndex]_vars

---------------------------------------------------------------------------
(* Vocabulary of the properties                                            *)

OutcomeKeys ==
    {"toss_indel", "toss_manysnps", "toss_anomalous_phase", "no_snps",
     "has_snps"}

\* the mate role of a record, and the other one
MateRole(read) == IF read.is_read1 THEN 1 ELSE 2

OtherRole(read) == 3 - MateRole(read)

\* the reference positions a record's aligned pairs cover
Covered(read) ==
    {read.aligned_pairs[k][2] : k \in DOMAIN read.aligned_pairs}

\* the record's offset at a reference position it covers
OffsetAt(read, ref_pos) ==
    LET k == CHOOSE k \in DOMAIN read.aligned_pairs :
                 read.aligned_pairs[k][2] = ref_pos
    IN  read.aligned_pairs[k][1]

\* the base the original record carries at a reference position it covers
BaseAt(read, ref_pos) == read.seq[OffsetAt(read, ref_pos) + 1]

CoversIndel(reads) ==
    \E m \in DOMAIN reads : \E p \in Covered(reads[m]) :
        IndelAt(reads[m].reference_name, p)

\* the SNP positions the record(s) cover
CoveredSnps(reads) ==
    {p \in UNION {Covered(reads[m]) : m \in DOMAIN reads} :
        HasSnp(reads[1].reference_name, p)}

\* the product of the allele-string lengths over a set of positions
RECURSIVE AlleleProduct(_, _)
AlleleProduct(chrom, posns) ==
    IF posns = {} THEN 1
    ELSE LET p == CHOOSE q \in posns : TRUE
         IN  Len(snp_dict[chrom][p]) * AlleleProduct(chrom, posns \ {p})

CapProduct(reads) ==
    AlleleProduct(reads[1].reference_name, CoveredSnps(reads))

\* n of write_read_seqs: the product of the returned lists' lengths
NumSeqs(seqs) == product([m \in DOMAIN seqs |-> Len(seqs[m])])

AllEmpty(seqs) == \A m \in DOMAIN seqs : seqs[m] = <<>>

\* this step consumed a record and triaged it, alone or with its partner
TriageStep ==
    /\ pc = "reads" /\ i' = i + 1
    /\ is_paired =>
          /\ insam[i + 1].is_proper_pair
          /\ insam[i + 1].qname
                 \in DOMAIN unpaired_reads[OtherRole(insam[i + 1])]

\* the records this step appended to the fastq of mate m
NewFastq(m) == SubSeq(fastqs'[m], Len(fastqs[m]) + 1, Len(fastqs'[m]))

\* a candidate sequence as a fastq record carries it
AsWritten(seq, read) ==
    IF read.is_reverse THEN reverse_complement(seq) ELSE seq

\* exactly one outcome counter went up by one, the others stayed
OneOutcome(key) ==
    \A k \in OutcomeKeys :
        read_results'[k] = read_results[k] + (IF k = key THEN 1 ELSE 0)

---------------------------------------------------------------------------
(* C1: for every mate pair routed to remap, the synthetic records written  *)
(* to the two per-mate streams are exactly the combinations (seqs1[i],     *)
(* seqs2[i]), i >= 1, of the lists get_dual_read_seqs returned, and the    *)
(* identity combination (original mate 1, original mate 2) is not among    *)
(* them.                                                                   *)
C1_AlignedCombinations ==
    [][(TriageStep /\ is_paired /\ Len(remap_bam') > Len(remap_bam)) =>
        /\ \A m \in 1..2 :
              [c \in DOMAIN NewFastq(m) |-> NewFastq(m)[c].seq]
                  = [c \in 1..(Len(both_seqs'[1]) - 1) |->
                        AsWritten(both_seqs'[m][c + 1], both_reads'[m])]
        /\ \A c \in DOMAIN NewFastq(1) :
              <<NewFastq(1)[c].seq, NewFastq(2)[c].seq>>
                  # <<AsWritten(both_reads'[1].seq, both_reads'[1]),
                      AsWritten(both_reads'[2].seq, both_reads'[2])>>
      ]_vars

(* C2: a read (single-ended) or mate pair (paired-end) covering an         *)
(* indel-flagged position gets an empty candidate list, toss_indel and no  *)
(* other outcome counter goes up, and the original record(s) go to the     *)
(* dropped sink and to neither keep nor to-remap.                          *)
C2_IndelDropped ==
    [][(TriageStep /\ CoversIndel(both_reads')) =>
        /\ AllEmpty(both_seqs')
        /\ OneOutcome("toss_indel")
        /\ dropped_bam' = dropped_bam \o both_reads'
        /\ keep' = keep
        /\ remap_bam' = remap_bam
      ]_vars

(* C5: the original record(s) of a triaged read or pair go to exactly one  *)
(* sink: keep iff n = 1, to-remap iff 1 < n <= cap, dropped iff n = 0 or   *)
(* n > cap, with n the product of the returned lists' lengths; synthetic   *)
(* records are written only in the to-remap case.                          *)
C5_OneSink ==
    [][TriageStep =>
        LET n == NumSeqs(both_seqs')
            to_keep == keep' = keep \o both_reads'
            to_remap == remap_bam' = remap_bam \o both_reads'
            to_dropped == dropped_bam' = dropped_bam \o both_reads'
        IN  /\ to_keep <=> n = 1
            /\ to_remap <=> (1 < n /\ n <= MAX_SEQS_PER_READ)
            /\ to_dropped <=> (n = 0 \/ n > MAX_SEQS_PER_READ)
            /\ to_keep \/ keep' = keep
            /\ to_remap \/ remap_bam' = remap_bam
            /\ to_dropped \/ dropped_bam' = dropped_bam
            /\ fastqs' # fastqs => to_remap
      ]_vars

(* C6: in both modes the remap-batch counter in the synthetic identifiers  *)
(* increases strictly from one remap batch to the next, all records of a   *)
(* batch carry the same counter, and a kept or dropped read or pair does   *)
(* not change the counter.                                                 *)
C6_BatchCounterIncreases ==
    [][TriageStep =>
        IF Len(remap_bam') > Len(remap_bam)
        THEN \A m \in DOMAIN fastqs :
                 \A c \in DOMAIN NewFastq(m) :
                     /\ NewFastq(m)[c].loc_line[1] = NewFastq(1)[1].loc_line[1]
                     /\ \A mm \in DOMAIN fastqs : \A b \in DOMAIN fastqs[mm] :
                            fastqs[mm][b].loc_line[1]
                                < NewFastq(m)[c].loc_line[1]
        ELSE remap_num' = remap_num
      ]_vars

---------------------------------------------------------------------------
(* C3: a read or pair covering no indel-flagged position whose product of  *)
(* allele-string lengths over the covered SNP positions exceeds the cap    *)
(* gets an empty candidate list and toss_manysnps.                         *)
C3_CapTossed ==
    (pc = "returned" /\ ~CoversIndel(both_reads)
        /\ CapProduct(both_reads) > MAX_SEQS_PER_READ) =>
        /\ AllEmpty(both_seqs)
        /\ read_results["toss_manysnps"] = 1

(* C10: neither generator holds, after any processed aligned pair or       *)
(* position, more than cap+1 candidates per mate, the two lists of a pair  *)
(* have equal lengths, and what is returned never sends write_read_seqs    *)
(* into its n > cap branch.                                                *)
C10_NeverAboveCap ==
    /\ (pc = "single_loop") =>
           Len(gen.seqs) <= MAX_SEQS_PER_READ + 1
    /\ (pc = "dual_loop") =>
           /\ Len(gen.seqs1) = Len(gen.seqs2)
           /\ Len(gen.seqs1) <= MAX_SEQS_PER_READ + 1
    /\ (pc = "returned") => NumSeqs(both_seqs) <= MAX_SEQS_PER_READ

\* the symbols a sequence may hold
Symbols == {"A", "C", "G", "T", "N", "-"}

\* the covered SNP positions whose observed base is a known allele
MatchedSnps(read) ==
    {p \in CoveredSnps(<<read>>) :
        In(BaseAt(read, p), snp_dict[read.reference_name][p])}

\* every sequence got by choosing, at each matched position, any allele of
\* its allele string, the other offsets kept
Choices(read) ==
    {s \in [1..Len(read.seq) -> Symbols] :
        \A k \in 1..Len(read.seq) :
            IF \E p \in MatchedSnps(read) : OffsetAt(read, p) + 1 = k
            THEN \A p \in MatchedSnps(read) :
                     OffsetAt(read, p) + 1 = k =>
                         In(s[k], snp_dict[read.reference_name][p])
            ELSE s[k] = read.seq[k]}

DistinctSymbols(alleles) ==
    \A j, k \in DOMAIN alleles : alleles[j] = alleles[k] => j = k

(* C8: for a single-ended read covering no indel-flagged position and      *)
(* within the cap, the returned list starts with the original, has no      *)
(* duplicates, holds sequences of the original's length, and is as a set   *)
(* the set of all independent allele choices at the matched positions (so  *)
(* its length is the product of their allele-string lengths when those     *)
(* hold distinct symbols).                                                 *)
C8_ExactChoices ==
    (pc = "returned" /\ ~is_paired /\ ~CoversIndel(both_reads)
        /\ CapProduct(both_reads) <= MAX_SEQS_PER_READ) =>
        LET read == both_reads[1]
            seqs == both_seqs[1]
        IN  /\ seqs # <<>> /\ seqs[1] = read.seq
            /\ \A j, k \in DOMAIN seqs : seqs[j] = seqs[k] => j = k
            /\ \A k \in DOMAIN seqs : Len(seqs[k]) = Len(read.seq)
            /\ {seqs[k] : k \in DOMAIN seqs} = Choices(read)
            /\ (\A p \in MatchedSnps(read) :
                    DistinctSymbols(snp_dict[read.reference_name][p]))
                   => Len(seqs) = AlleleProduct(read.reference_name,
                                                MatchedSnps(read))

\* some SNP position both mates cover, where the original records differ
OriginalsDisagree(read1, read2) ==
    \E p \in Covered(read1) \cap Covered(read2) :
        /\ HasSnp(read1.reference_name, p)
        /\ BaseAt(read1, p) # BaseAt(read2, p)

(* C4: a pair covering no indel-flagged position and within the cap        *)
(* estimate gets two empty lists and toss_anomalous_phase exactly when the *)
(* two original records carry different bases at some SNP position both    *)
(* cover.                                                                  *)
C4_PhaseOnOriginals ==
    (pc = "returned" /\ is_paired /\ ~CoversIndel(both_reads)
        /\ CapProduct(both_reads) <= MAX_SEQS_PER_READ) =>
        IF OriginalsDisagree(both_reads[1], both_reads[2])
        THEN /\ both_seqs = << <<>>, <<>> >>
             /\ read_results["toss_anomalous_phase"] = 1
        ELSE /\ both_seqs[1] # <<>> /\ both_seqs[2] # <<>>
             /\ read_results["toss_anomalous_phase"] = 0

\* a pair tossed for phase at a shared position that was reached after
\* substitutions at another position had been generated
C4_Witness ==
    /\ pc = "returned" /\ is_paired
    /\ read_results["toss_anomalous_phase"] = 1
    /\ Len(gen.seqs1) > 1
    /\ gen.seq1 # both_reads[1].seq

---------------------------------------------------------------------------
\* the line of the variant source that set the entry of (chrom, pos)
EntryLine(chrom, pos) ==
    LET ns == {n \in DOMAIN snp_lines :
                   snp_lines[n][1] = chrom /\ snp_lines[n][2] - 1 = pos}
    IN  snp_lines[CHOOSE n \in ns : \A m \in ns : m <= n]

(* C7: get_indels flags a position iff its entry contains the deletion     *)
(* symbol or has a reference or alternate allele longer than one symbol.   *)
C7_IndelIff ==
    (pc = "indexed") =>
        \A chrom \in DOMAIN snp_dict : \A pos \in DOMAIN snp_dict[chrom] :
            LET ref == EntryLine(chrom, pos)[3]
                alt == EntryLine(chrom, pos)[4]
            IN  IndelAt(chrom, pos) <=>
                    \/ In("-", ref) \/ In("-", alt)
                    \/ Len(ref) > 1 \/ Len(alt) > 1

---------------------------------------------------------------------------
\* every query name of the stream occurs exactly once as a proper-pair
\* mate 1 and exactly once as a proper-pair mate 2, and not otherwise
WellFormed(stream) ==
    /\ \A k \in DOMAIN stream :
           stream[k].is_proper_pair /\ stream[k].is_read1 # stream[k].is_read2
    /\ \A k \in DOMAIN stream : \A role \in 1..2 :
           Cardinality({j \in DOMAIN stream :
                            /\ stream[j].qname = stream[k].qname
                            /\ MateRole(stream[j]) = role}) = 1

QNames(stream) == {stream[k].qname : k \in DOMAIN stream}

\* all records written to the three sinks
Sunk == keep \o remap_bam \o dropped_bam

\* the sum of the outcome counters: the number of triages so far
RECURSIVE CounterSum(_, _)
CounterSum(counter, keys) ==
    IF keys = {} THEN 0
    ELSE LET k == CHOOSE q \in keys : TRUE
         IN  counter[k] + CounterSum(counter, keys \ {k})

C9_Buffers ==
    (is_paired /\ WellFormed(insam)) =>
        /\ DOMAIN unpaired_reads[1] \cap DOMAIN unpaired_reads[2] = {}
        /\ (pc = "done") =>
               /\ DOMAIN unpaired_reads[1] = {}
               /\ DOMAIN unpaired_reads[2] = {}
               /\ CounterSum(read_results, OutcomeKeys)
                      = Cardinality(QNames(insam))
               /\ Len(Sunk) = Len(insam)
               /\ \A k \in DOMAIN insam :
                      Cardinality({j \in DOMAIN Sunk : Sunk[j] = insam[k]}) = 1

C9_Arrival ==
    LET r == insam[i + 1]
        self == MateRole(r)
        other == OtherRole(r)
    IN  (pc = "reads" /\ is_paired /\ i' = i + 1 /\ r.is_proper_pair) =>
          IF r.qname \in DOMAIN unpaired_reads[other]
          THEN LET partner == unpaired_reads[other][r.qname]
                   pair == IF self = 1 THEN <<r, partner>>
                           ELSE <<partner, r>>
               IN  /\ both_reads' = pair
                   /\ \E key \in OutcomeKeys : OneOutcome(key)
                   /\ Sunk' # Sunk
                   /\ \/ keep' = keep \o pair
                      \/ remap_bam' = remap_bam \o pair
                      \/ dropped_bam' = dropped_bam \o pair
                   /\ DOMAIN unpaired_reads'[other]
                          = DOMAIN unpaired_reads[other] \ {r.qname}
                   /\ \A q \in DOMAIN unpaired_reads'[other] :
                          unpaired_reads'[other][q] = unpaired_reads[other][q]
                   /\ unpaired_reads'[self] = unpaired_reads[self]
          ELSE /\ DOMAIN unpaired_reads'[self]
                      = DOMAIN unpaired_reads[self] \cup {r.qname}
               /\ unpaired_reads'[self][r.qname] = r
               /\ \A q \in DOMAIN unpaired_reads[self] \ {r.qname} :
                      unpaired_reads'[self][q] = unpaired_reads[self][q]
               /\ unpaired_reads'[other] = unpaired_reads[other]
               /\ read_results' = read_results
               /\ Sunk' = Sunk /\ fastqs' = fastqs
               /\ both_reads' = both_reads /\ remap_num' = remap_num

(* C9: in paired-end mode a proper-pair record whose opposite-role partner *)
(* of the same query name is buffered is triaged with it as (mate 1,       *)
(* mate 2), the partner leaves the buffer and the record is not buffered;  *)
(* without a buffered partner it is buffered under its name and role and   *)
(* not triaged.  After a stream in which every query name occurs exactly   *)
(* once as proper-pair mate 1 and once as proper-pair mate 2, both buffers *)
(* are empty and every pair was triaged exactly once, and during it no     *)
(* query name is in both buffers.                                          *)
C9_PairingAndBuffers == []C9_Buffers /\ [][C9_Arrival]_vars

\* the end of a stream of two pairs, interleaved, a mate 2 arriving first
C9_Witness ==
    /\ pc = "done" /\ is_paired /\ WellFormed(insam)
    /\ Len(insam) = 4
    /\ insam[1].is_read2
    /\ insam[1].qname # insam[2].qname
    /\ unpaired_reads = << <<>>, <<>> >>

=============================================================================
